---- MODULE Spec2Model ----
(***************************************************************************)
(* CoreX backend resolution (config_loader.py): a manifest is read from    *)
(* disk, the requested section is extracted, the backend class is imported *)
(* by its dotted path, constructed with init_args and optionally checked   *)
(* against an interface.  Each call is a sequence of steps of one caller;  *)
(* the manifest files may be rewritten or removed between any two steps.   *)
(***************************************************************************)
EXTENDS Naturals, Sequences, FiniteSets, TLC

VARIABLES
    files,        \* the file system: path -> document (kind "absent": no file)
    sys_modules,  \* importlib's cache of imported modules (names)
    namespace_defs, \* per module: the definition of it that is installed now
    loaded_defs,  \* per module: the definition the module in sys_modules was loaded from
    cls_def,      \* per caller: the definition the class in cls comes from
    pc,           \* per caller: the step its current call is at
    entry,        \* per caller: the entry point that was called
    section,      \* load_backend's parameter section
    config_path,  \* load_backend's parameter config_path
    interface,    \* load_backend's parameter interface
    existed,      \* what os.path.exists(target_path) answered
    config,       \* the document returned by _load_yaml_config
    class_path,   \* local class_path of load_backend
    init_args,    \* local init_args of load_backend
    module_path,  \* local module_path of _load_class
    class_name,   \* local class_name of _load_class
    cls,          \* local cls of load_backend (qualified type name)
    instance,     \* local instance of load_backend
    ctor_calls,   \* per caller: how often its call has called the constructor (line 60)
    object_id,    \* per caller: the identity of the object bound to instance
    outcome,      \* what the call gave its caller: an instance or an exception
    stages,       \* per caller: the stages its call has run, in the order run
    verdicts,     \* per caller: the results of the _validate_interface calls on its instance
    held,         \* per caller: the identity of the instance it keeps from its last successful call
    prev,         \* history: the caller's last finished call and whether its manifest was edited since
    refreshed     \* history: this call repeats the previous one after an edit of its manifest

vars == <<files, sys_modules, namespace_defs, loaded_defs, cls_def, pc, entry, section, config_path, interface, existed,
          config, class_path, init_args, module_path, class_name, cls, instance,
          ctor_calls, object_id, outcome, stages, verdicts, held, prev, refreshed>>

Threads == {"c1", "c2"}
\* Spec runs the calls of one caller, one after another
Sequential == {"c1"}

----------------------------------------------------------------------------
(* Python values *)

SEP == "."
\* Python's None, where a path or an interface is expected
None == "None"

\* os.path.expanduser("~/.corex.yaml")
DEFAULT_GLOBAL_CONFIG_PATH == "/home/user/.corex.yaml"

\* the paths callers pass, and the files they can name
PathArgs == {None, "", "conf.yaml"}
FilePaths == {DEFAULT_GLOBAL_CONFIG_PATH, "conf.yaml"}

\* the capability sections of a manifest, and those callers ask load_backend for
Sections == {"storage", "messaging", "cache", "ai_nlp"}
CallSections == {"storage", "cache", "ai_nlp"}

\* the contracts of corex/interfaces that the wrappers bind
StorageInterface == "StorageInterface"
MessagingInterface == "MessagingInterface"
CacheInterface == "CacheInterface"
Interfaces == {StorageInterface, MessagingInterface, CacheInterface}
\* what callers pass as load_backend's interface
CallInterfaces == {None, StorageInterface, CacheInterface}

\* the modules of the repository that define them (src/corex/interfaces/*.py)
RepoModules ==
    [m \in {"corex", "corex.interfaces", "corex.interfaces.storage",
            "corex.interfaces.messaging", "corex.interfaces.cache"} |->
        CASE m = "corex.interfaces.storage" -> {StorageInterface}
          [] m = "corex.interfaces.messaging" -> {MessagingInterface}
          [] m = "corex.interfaces.cache" -> {CacheInterface}
          [] OTHER -> {}]

\* a string is a sequence of tokens: a separator or a run of other characters
Join(toks) ==
    LET RECURSIVE J(_)
        J(s) == IF s = <<>> THEN "" ELSE Head(s) \o J(Tail(s))
    IN  J(toks)

\* a keyword mapping is a set of <<name, value>> pairs
Names(kw) == {p[1] : p \in kw}

----------------------------------------------------------------------------
(* The backends installed in the host environment *)

\* per qualified class name: the interfaces it derives from, whether it leaves
\* abstract methods unimplemented, the interfaces all of whose operations it
\* defines itself, its constructor's signature, and the exception the
\* constructor's body raises ("": none)
TypeTable ==
    [name \in {"pkgX.LocalDisk", "pkgX.NotAStorage", "pkgX.RedisCache", "pkgX.Broker",
               "pkgX.Flaky", "pkgX.DuckCache", "pkgX.PartialStorage",
               "a.b.c.MyClass", "corex.interfaces.storage.StorageInterface",
               "corex.interfaces.messaging.MessagingInterface",
               "corex.interfaces.cache.CacheInterface"} |->
        CASE name = "pkgX.LocalDisk" ->
                [bases |-> {StorageInterface}, abstract |-> FALSE,
                 defines |-> {StorageInterface},
                 required |-> {"root"}, optional |-> {}, varkw |-> FALSE, raises |-> ""]
          [] name = "pkgX.NotAStorage" ->
                [bases |-> {}, abstract |-> FALSE, defines |-> {},
                 required |-> {}, optional |-> {"root"}, varkw |-> FALSE, raises |-> ""]
          [] name = "pkgX.RedisCache" ->
                [bases |-> {CacheInterface}, abstract |-> FALSE,
                 defines |-> {CacheInterface},
                 required |-> {}, optional |-> {"host"}, varkw |-> FALSE, raises |-> ""]
          [] name = "pkgX.Broker" ->
                [bases |-> {MessagingInterface}, abstract |-> FALSE,
                 defines |-> {MessagingInterface},
                 required |-> {}, optional |-> {}, varkw |-> TRUE, raises |-> ""]
          [] name = "pkgX.Flaky" ->
                \* a cache backend whose constructor connects, and fails to
                [bases |-> {CacheInterface}, abstract |-> FALSE,
                 defines |-> {CacheInterface},
                 required |-> {}, optional |-> {"host"}, varkw |-> FALSE,
                 raises |-> "ConnectionError"]
          [] name = "pkgX.DuckCache" ->
                \* a class with every method of CacheInterface that does not
                \* derive from it
                [bases |-> {}, abstract |-> FALSE, defines |-> {CacheInterface},
                 required |-> {}, optional |-> {"host"}, varkw |-> FALSE, raises |-> ""]
          [] name = "pkgX.PartialStorage" ->
                \* a subclass of StorageInterface that overrides only some of
                \* its abstract methods
                [bases |-> {StorageInterface}, abstract |-> TRUE, defines |-> {},
                 required |-> {"root"}, optional |-> {}, varkw |-> FALSE, raises |-> ""]
          [] name = "a.b.c.MyClass" ->
                [bases |-> {}, abstract |-> FALSE, defines |-> {},
                 required |-> {}, optional |-> {}, varkw |-> FALSE, raises |-> ""]
          [] OTHER ->
                \* the abstract base classes of corex/interfaces
                [bases |-> {}, abstract |-> TRUE, defines |-> {},
                 required |-> {}, optional |-> {}, varkw |-> FALSE, raises |-> ""]]

\* the importable modules and the classes each defines
InstalledModules ==
    [m \in {"pkgX", "a", "a.b", "a.b.c"} \cup DOMAIN RepoModules |->
        CASE m = "pkgX" -> {"LocalDisk", "NotAStorage", "RedisCache", "Broker", "Flaky",
                            "DuckCache", "PartialStorage"}
          [] m = "a.b.c" -> {"MyClass"}
          [] m \in DOMAIN RepoModules -> RepoModules[m]
          [] OTHER -> {}]

----------------------------------------------------------------------------
(* Manifest documents, as yaml.safe_load returns them *)

BackendStr(toks) == [isstr |-> TRUE, toks |-> toks]
\* a backend field that is not a string (a number, null)
BackendNonStr == [isstr |-> FALSE, toks |-> <<>>]

ArgsMap(kw) == [kind |-> "map", kw |-> kw]
\* init_args: with nothing after the colon
ArgsNull == [kind |-> "null", kw |-> {}]

SecAbsent ==
    [kind |-> "absent", has_backend |-> FALSE, backend |-> BackendNonStr,
     has_init_args |-> FALSE, init_args |-> ArgsNull, other_keys |-> FALSE]
\* a key whose value is null, {}, [], "", 0 or false
SecFalsy == [SecAbsent EXCEPT !.kind = "falsy"]
\* a key whose value is a non-empty string or list, or a number
SecScalar == [SecAbsent EXCEPT !.kind = "nonmap"]
\* a mapping with init_args and no backend
SecNoBackend ==
    [SecAbsent EXCEPT !.kind = "map", !.has_init_args = TRUE, !.init_args = ArgsMap({})]
\* {backend: ..., init_args: ...}
SecFull(toks, args) ==
    [kind |-> "map", has_backend |-> TRUE, backend |-> BackendStr(toks),
     has_init_args |-> TRUE, init_args |-> args, other_keys |-> FALSE]
\* {backend: ...}
SecBackendOnly(toks) ==
    [kind |-> "map", has_backend |-> TRUE, backend |-> BackendStr(toks),
     has_init_args |-> FALSE, init_args |-> ArgsNull, other_keys |-> FALSE]

IdLocalDisk == <<"pkgX", SEP, "LocalDisk">>
IdNotAStorage == <<"pkgX", SEP, "NotAStorage">>
IdRedisCache == <<"pkgX", SEP, "RedisCache">>
IdBroker == <<"pkgX", SEP, "Broker">>
IdMyClass == <<"a", SEP, "b", SEP, "c", SEP, "MyClass">>
IdNoSeparator == <<"LocalDisk">>
IdNoModule == <<"nopkg", SEP, "Thing">>
IdNoType == <<"pkgX", SEP, "Missing">>
IdFlaky == <<"pkgX", SEP, "Flaky">>
\* ".LocalDisk": nothing before the last separator
IdEmptyNamespace == <<SEP, "LocalDisk">>
IdDuckCache == <<"pkgX", SEP, "DuckCache">>
IdPartialStorage == <<"pkgX", SEP, "PartialStorage">>
\* backend: ""
IdEmpty == <<>>

RootArg == {<<"root", "/tmp/x">>}
HostArg == {<<"host", "localhost">>}

NoSections == [s \in Sections |-> SecAbsent]

\* no file at the path
FileAbsent == [kind |-> "absent", sections |-> NoSections]
\* a file yaml.safe_load cannot parse
DocUnparsable == [kind |-> "unparsable", sections |-> NoSections]
\* an empty document: yaml.safe_load returns None
DocEmpty == [kind |-> "none", sections |-> NoSections]
\* a document whose top level is a sequence or a scalar
DocSequence == [kind |-> "seq", sections |-> NoSections]
DocMap(secs) == [kind |-> "map", sections |-> secs]

Manifest(storage, messaging, cache, ai_nlp) ==
    DocMap([s \in Sections |->
        CASE s = "storage" -> storage [] s = "messaging" -> messaging
          [] s = "cache" -> cache [] s = "ai_nlp" -> ai_nlp])

\* Scenario A's manifest, with a backend of its own for every section
ManifestA ==
    Manifest(SecFull(IdLocalDisk, ArgsMap(RootArg)), SecBackendOnly(IdBroker),
             SecFull(IdRedisCache, ArgsMap(HostArg)), SecFull(IdMyClass, ArgsMap({})))
\* Scenarios B and C: no cache key, a storage backend that is no storage, and a
\* backend that lacks its required argument
ManifestB ==
    Manifest(SecBackendOnly(IdNotAStorage), SecAbsent, SecAbsent,
             SecBackendOnly(IdLocalDisk))
\* sections that are empty, have no backend field, or are no mapping
ManifestC == Manifest(SecFalsy, SecAbsent, SecNoBackend, SecScalar)
\* backend identifiers that do not resolve
ManifestD ==
    Manifest(SecBackendOnly(IdNoSeparator), SecAbsent, SecBackendOnly(IdNoModule),
             SecBackendOnly(IdNoType))
\* arguments the constructor does not take, a backend of the wrong capability,
\* and a constructor that takes any keyword
ManifestE ==
    Manifest(SecFull(IdLocalDisk, ArgsMap(RootArg \cup HostArg)), SecAbsent,
             SecFull(IdNotAStorage, ArgsMap(RootArg)),
             SecFull(IdBroker, ArgsMap(RootArg \cup HostArg)))
\* init_args with nothing after the colon, a constructor that raises, and an
\* identifier whose namespace part is empty
ManifestF ==
    Manifest(SecFull(IdLocalDisk, ArgsNull), SecAbsent, SecBackendOnly(IdFlaky),
             SecBackendOnly(IdEmptyNamespace))
\* a storage backend that leaves abstract methods unimplemented, a cache
\* backend that derives from no interface, and identifiers that are empty or
\* have no separator
ManifestG ==
    Manifest(SecFull(IdPartialStorage, ArgsMap(RootArg)), SecBackendOnly(IdNoSeparator),
             SecFull(IdDuckCache, ArgsMap(HostArg)), SecBackendOnly(IdEmpty))
\* the manifest kept at the default path, when there is one
DefaultManifest ==
    Manifest(SecAbsent, SecAbsent, SecFull(IdRedisCache, ArgsMap(HostArg)),
             SecBackendOnly(IdNotAStorage))

\* the documents a manifest file is rewritten with
Docs ==
    {DocUnparsable, DocEmpty, DocSequence,
     ManifestA, ManifestB, ManifestC, ManifestD, ManifestE, ManifestF}

\* what each file is rewritten with
DocsAt(p) == IF p = DEFAULT_GLOBAL_CONFIG_PATH THEN {DefaultManifest} ELSE Docs

----------------------------------------------------------------------------
(* What a call gives its caller *)

NoInstance == [type |-> "", kwargs |-> {}]
NoOutcome ==
    [status |-> "none", exc |-> "", msg |-> "", names |-> "", stage |-> "",
     value |-> NoInstance]
\* raise exc(msg) at a stage of the pipeline; names: the thing the message names
Raise(exc, msg, names, stage) ==
    [status |-> "raised", exc |-> exc, msg |-> msg, names |-> names, stage |-> stage,
     value |-> NoInstance]
Return(inst) ==
    [status |-> "returned", exc |-> "", msg |-> "", names |-> "", stage |-> "return",
     value |-> inst]

----------------------------------------------------------------------------
(* _load_yaml_config *)

\* a target path that ignores the empty string's falsity and the default
TargetPathDefaultOnly(path) == DEFAULT_GLOBAL_CONFIG_PATH

\* the default taken for None alone: path if path is not None else the default
TargetPathNoneOnly(path) == IF path = None THEN DEFAULT_GLOBAL_CONFIG_PATH ELSE path

\* path or DEFAULT_GLOBAL_CONFIG_PATH
TargetPath(path) == IF path \in {None, ""} THEN DEFAULT_GLOBAL_CONFIG_PATH ELSE path

\* os.path.exists(target_path) on the file system fs: no string but a file's
\* path names a file
path_exists(fs, target_path) ==
    target_path \in DOMAIN fs /\ fs[target_path].kind # "absent"

\* raise FileNotFoundError(f"CoreX config not found: {target_path}")
ConfigNotFound(target_path) ==
    Raise("FileNotFoundError", "CoreX config not found", target_path, "load_yaml")

\* the file system the process starts with: Scenario A's manifest at conf.yaml
InitialFiles ==
    [p \in FilePaths |-> IF p = "conf.yaml" THEN ManifestA ELSE FileAbsent]

\* a manifest loaded once, when the process starts, and kept
ReadManifestOnce(fs, target_path) == InitialFiles[target_path]

\* open(target_path) and yaml.safe_load(f), on the file system fs
ReadManifest(fs, target_path) == fs[target_path]

\* every failed read reported as a missing file
ReadErrorNotFound(doc, target_path) ==
    Raise("FileNotFoundError", "No such file or directory", target_path, "load_yaml")

\* the outcome of with open(...): return yaml.safe_load(f), when it raises
ReadError(doc, target_path) ==
    IF doc.kind = "absent"
    THEN Raise("FileNotFoundError", "No such file or directory", target_path, "load_yaml")
    ELSE Raise("YAMLError", "could not parse", target_path, "load_yaml")

----------------------------------------------------------------------------
(* load_backend, lines 52-57: the section and its two fields *)

\* a section counted as missing only when its key is absent
SectionPresent(sec) == sec.kind # "absent"

\* a section counted as missing unless it has a backend field
SectionHasBackend(sec) == sec.kind = "map" /\ sec.has_backend

\* Python's truth value of config.get(section)
SectionTruthy(sec) ==
    \/ sec.kind = "nonmap"
    \/ sec.kind = "map" /\ (sec.has_backend \/ sec.has_init_args \/ sec.other_keys)

\* init_args taken without a default: section_conf.get("init_args")
InitArgsRequired(sec) == sec.init_args

\* section_conf.get("init_args", {})
InitArgsOf(sec) == IF sec.has_init_args THEN sec.init_args ELSE ArgsMap({})

\* a lookup that ignores the section asked for
LookupStorage(doc, sect) == doc.sections["storage"]

\* config.get(section) on a mapping (an absent key gives None)
Lookup(doc, sect) == doc.sections[sect]

ExtractDescriptor(doc, sect) ==
    LET sec == Lookup(doc, sect)
        fail(e) == [ok |-> FALSE, err |-> e, class_path |-> BackendNonStr,
                    init_args |-> ArgsNull]
    IN  IF doc.kind # "map"
        THEN fail(Raise("AttributeError", "object has no attribute", "get", "extract"))
        ELSE IF ~SectionTruthy(sec)
        THEN fail(Raise("ValueError", "Missing config section", sect, "extract"))
        ELSE IF sec.kind = "nonmap"
        THEN fail(Raise("TypeError", "indices must be integers", "backend", "extract"))
        ELSE IF ~sec.has_backend
        THEN fail(Raise("KeyError", "", "backend", "extract"))
        ELSE [ok |-> TRUE, err |-> NoOutcome, class_path |-> sec.backend,
              init_args |-> InitArgsOf(sec)]

----------------------------------------------------------------------------
(* _load_class *)

Max(S) == CHOOSE x \in S : \A y \in S : y <= x

\* a split at the first separator: import_path.split(".", 1)
split_first(toks) ==
    LET seps == {i \in 1..Len(toks) : toks[i] = SEP}
        Min(S) == CHOOSE x \in S : \A y \in S : x <= y
    IN  IF seps = {}
        THEN <<toks>>
        ELSE <<SubSeq(toks, 1, Min(seps) - 1), SubSeq(toks, Min(seps) + 1, Len(toks))>>

\* a split that takes an identifier without a separator for a class of the
\* package pkgX
rsplit_in_package(toks) ==
    LET seps == {i \in 1..Len(toks) : toks[i] = SEP}
    IN  IF seps = {}
        THEN <<(<<"pkgX">>), toks>>
        ELSE <<SubSeq(toks, 1, Max(seps) - 1), SubSeq(toks, Max(seps) + 1, Len(toks))>>

\* import_path.rsplit(".", 1): the list of parts, split at the last separator
rsplit(toks) ==
    LET seps == {i \in 1..Len(toks) : toks[i] = SEP}
    IN  IF seps = {}
        THEN <<toks>>
        ELSE <<SubSeq(toks, 1, Max(seps) - 1), SubSeq(toks, Max(seps) + 1, Len(toks))>>

\* the packages importlib imports on the way to a module, outermost first:
\* the prefixes of its name that end at a separator, and the name itself
ImportChain(name) ==
    LET cuts == {i \in 1..Len(name) : i = Len(name) \/ name[i + 1] = SEP}
    IN  [k \in 1..Cardinality(cuts) |->
            Join(SubSeq(name, 1,
                 CHOOSE i \in cuts : Cardinality({j \in cuts : j <= i}) = k))]

\* importlib.import_module(module_path) with the cache sys_modules = cache
import_module(name, cache) ==
    LET chain == ImportChain(name)
        found(m) == m \in cache \/ m \in DOMAIN InstalledModules
        missing == {k \in 1..Len(chain) : ~found(chain[k])}
        fail(e, n) == [ok |-> FALSE, err |-> e,
                       loaded |-> {chain[k] : k \in 1..n}]
    IN  IF name = <<>>
        THEN fail(Raise("ValueError", "Empty module name", "", "load_class"), 0)
        ELSE IF Head(name) = SEP
        THEN fail(Raise("TypeError", "relative import requires package",
                        Join(name), "load_class"), 0)
        ELSE IF missing # {}
        THEN LET k == CHOOSE i \in missing : \A j \in missing : i <= j
             IN  fail(Raise("ModuleNotFoundError", "No module named", chain[k],
                            "load_class"), k - 1)
        ELSE [ok |-> TRUE, err |-> NoOutcome, loaded |-> {chain[k] : k \in 1..Len(chain)}]

\* a lookup that takes the member for a submodule and reports it as not
\* importable
getattr_as_import(module, attr) ==
    IF attr \in InstalledModules[module]
    THEN [ok |-> TRUE, err |-> NoOutcome, cls |-> module \o SEP \o attr]
    ELSE [ok |-> FALSE, cls |-> "",
          err |-> Raise("ModuleNotFoundError", "No module named",
                        module \o SEP \o attr, "load_class")]

\* getattr(module, class_name): the qualified name of the class found
getattr(module, attr) ==
    IF attr \in InstalledModules[module]
    THEN [ok |-> TRUE, err |-> NoOutcome, cls |-> module \o SEP \o attr]
    ELSE [ok |-> FALSE, cls |-> "",
          err |-> Raise("AttributeError", "module has no attribute", attr,
                        "load_class")]

_load_class(import_path, cache) ==
    LET parts == rsplit(import_path.toks)
        mpath == parts[1]
        cname == parts[2]
        imp == import_module(mpath, cache)
        got == getattr(Join(mpath), Join(cname))
        fail(e, mp, cn, ld) ==
            [ok |-> FALSE, err |-> e, module_path |-> mp, class_name |-> cn,
             cls |-> "", loaded |-> ld]
    IN  IF ~import_path.isstr
        THEN fail(Raise("AttributeError", "object has no attribute", "rsplit",
                        "load_class"), <<>>, <<>>, {})
        ELSE IF Len(parts) # 2
        THEN fail(Raise("ValueError", "not enough values to unpack", "", "load_class"),
                  <<>>, <<>>, {})
        ELSE IF ~imp.ok
        THEN fail(imp.err, mpath, cname, imp.loaded)
        ELSE IF ~got.ok
        THEN fail(got.err, mpath, cname, imp.loaded)
        ELSE [ok |-> TRUE, err |-> NoOutcome, module_path |-> mpath,
              class_name |-> cname, cls |-> got.cls, loaded |-> imp.loaded]

\* a module's definition as installed at first, and after it was replaced
OriginalDef == "v1"
ReplacedDef == "v2"
\* the definition no module has: not loaded, no class
NoDef == ""

\* an import that executes the module's installed definition at every call
import_fresh(m, loaded, installed) == installed[m]

\* the definition behind the module object importlib.import_module gives for m:
\* the one in sys.modules when m was imported before, else the installed one
import_definition(m, loaded, installed) ==
    IF loaded[m] # NoDef THEN loaded[m] ELSE installed[m]

\* loaded_defs after the modules ms have been imported
AfterImport(ms, loaded, installed) ==
    [m \in DOMAIN loaded |->
        IF m \in ms THEN import_definition(m, loaded, installed) ELSE loaded[m]]

----------------------------------------------------------------------------
(* The constructor call of line 60, and _validate_interface *)

\* a call that passes the constructor nothing
ExpandNothing(args) == {}

\* the named parameters the call passes to the constructor
Expand(args) == args.kw

\* a construction that swallows the constructor's failure and hands out a
\* bare instance
ConstructLenient(c, args) ==
    [ok |-> TRUE, err |-> NoOutcome, instance |-> [type |-> c, kwargs |-> {}]]

\* cls applied to the expanded init_args: the instance, or what the call raises
Construct(c, args) ==
    LET sig == TypeTable[c]
        fail(msg, n) == [ok |-> FALSE, instance |-> NoInstance,
                         err |-> Raise("TypeError", msg, n, "construct")]
        passed == Expand(args)
    IN  IF args.kind # "map"
        THEN fail("keyword arguments must be a mapping", "")
        ELSE IF sig.abstract
        THEN fail("Can't instantiate abstract class", c)
        ELSE IF ~sig.varkw /\ ~(Names(passed) \subseteq sig.required \cup sig.optional)
        THEN fail("got an unexpected keyword argument",
                  CHOOSE n \in Names(passed) : n \notin sig.required \cup sig.optional)
        ELSE IF ~(sig.required \subseteq Names(passed))
        THEN fail("missing required argument",
                  CHOOSE n \in sig.required : n \notin Names(passed))
        ELSE IF sig.raises # ""
        THEN [ok |-> FALSE, instance |-> NoInstance,
              err |-> Raise(sig.raises, "constructor failed", c, "construct")]
        ELSE [ok |-> TRUE, err |-> NoOutcome,
              instance |-> [type |-> c, kwargs |-> passed]]

\* the identities an object can have
ObjectIds == <<"o1", "o2", "o3", "o4">>

\* an instance kept from an earlier resolution and handed out again
cached_object(live) ==
    IF live = {} THEN ObjectIds[1] ELSE CHOOSE o \in live : TRUE

\* the identity of the object a constructor call creates: one that no live
\* object has
new_object(live) ==
    ObjectIds[CHOOSE i \in 1..Len(ObjectIds) :
                 /\ ObjectIds[i] \notin live
                 /\ \A j \in 1..(i - 1) : ObjectIds[j] \in live]

\* isinstance(instance, interface)
\* a test of whether the object's class has the methods the interface names
isinstance_structural(inst, iface) ==
    iface \in TypeTable[inst.type].bases \cup TypeTable[inst.type].defines

isinstance(inst, iface) == iface \in TypeTable[inst.type].bases

\* a validation without the test for a contract: if not isinstance(...)
validate_unguarded(inst, iface) ==
    IF ~isinstance(inst, iface)
    THEN Raise("TypeError", "Loaded class does not implement required interface",
               iface, "validate")
    ELSE NoOutcome

\* a validation that never rejects
validate_nothing(inst, iface) == NoOutcome

_validate_interface(inst, iface) ==
    IF iface # None /\ ~isinstance(inst, iface)
    THEN Raise("TypeError", "Loaded class does not implement required interface",
               iface, "validate")
    ELSE NoOutcome

\* a check that remembers having checked and lets anything pass afterwards
VerdictFirstOnly(inst, iface, n) ==
    IF n = 1 THEN _validate_interface(inst, iface) ELSE NoOutcome

\* what the n-th call _validate_interface(inst, iface) gives: the function keeps
\* nothing from one call to the next
Verdict(inst, iface, n) == _validate_interface(inst, iface)

----------------------------------------------------------------------------
(* load_backend as a function of what the call reads *)

\* lines 52-63 on the parsed manifest doc, with nothing imported before
Pipeline(doc, sect, iface) ==
    LET d == ExtractDescriptor(doc, sect)
        c == _load_class(d.class_path, {})
        k == Construct(c.cls, d.init_args)
        v == _validate_interface(k.instance, iface)
    IN  IF ~d.ok THEN d.err
        ELSE IF ~c.ok THEN c.err
        ELSE IF ~k.ok THEN k.err
        ELSE IF v.status = "raised" THEN v
        ELSE Return(k.instance)

\* load_backend(sect, path, iface) when os.path.exists answers there and the
\* file read is doc
load_backend(there, doc, sect, path, iface) ==
    IF ~there THEN ConfigNotFound(TargetPath(path))
    ELSE IF doc.kind \in {"absent", "unparsable"} THEN ReadError(doc, TargetPath(path))
    ELSE Pipeline(doc, sect, iface)

----------------------------------------------------------------------------
(* The convenience wrappers *)

Wrappers == {"load_storage_backend", "load_messaging_backend", "load_cache_backend"}

\* what each wrapper imports, and the section and interface it passes on
WrapperBinding(e) ==
    CASE e = "load_storage_backend" ->
            [module |-> <<"corex", SEP, "interfaces", SEP, "storage_interface">>,
             name |-> StorageInterface, section |-> "storage"]
      [] e = "load_messaging_backend" ->
            [module |-> <<"corex", SEP, "interfaces", SEP, "messaging_interface">>,
             name |-> MessagingInterface, section |-> "messaging"]
      [] e = "load_cache_backend" ->
            [module |-> <<"corex", SEP, "interfaces", SEP, "cache_interface">>,
             name |-> CacheInterface, section |-> "cache"]

\* from <module> import <name>, with the cache sys_modules = cache
ImportFrom(module, name, cache) ==
    LET imp == import_module(module, cache)
        got == getattr(Join(module), name)
    IN  IF ~imp.ok
        THEN [ok |-> FALSE, loaded |-> imp.loaded,
              err |-> [imp.err EXCEPT !.stage = "wrapper_import"]]
        ELSE IF ~got.ok
        THEN [ok |-> FALSE, loaded |-> imp.loaded,
              err |-> Raise("ImportError", "cannot import name", name, "wrapper_import")]
        ELSE [ok |-> TRUE, loaded |-> imp.loaded, err |-> NoOutcome]

\* an AI entry point bound to a contract, as the typed wrappers are
AiInterfaceBound == StorageInterface

\* the interface load_ai_backend passes to load_backend: none
AiInterface == None

----------------------------------------------------------------------------
(* The state machine *)

NoPrev == [valid |-> FALSE, path |-> "", section |-> "", edited |-> FALSE]

\* no call has been made, nothing is imported and no instance exists
InitCallers ==
    /\ pc = [t \in Threads |-> "idle"]
    /\ entry = [t \in Threads |-> ""]
    /\ section = [t \in Threads |-> ""]
    /\ config_path = [t \in Threads |-> None]
    /\ existed = [t \in Threads |-> FALSE]
    /\ config = [t \in Threads |-> FileAbsent]
    /\ class_path = [t \in Threads |-> BackendNonStr]
    /\ init_args = [t \in Threads |-> ArgsNull]
    /\ module_path = [t \in Threads |-> <<>>]
    /\ class_name = [t \in Threads |-> <<>>]
    /\ cls = [t \in Threads |-> ""]
    /\ cls_def = [t \in Threads |-> NoDef]
    /\ ctor_calls = [t \in Threads |-> 0]
    /\ object_id = [t \in Threads |-> ""]
    /\ held = [t \in Threads |-> ""]
    /\ verdicts = [t \in Threads |-> <<>>]
    /\ stages = [t \in Threads |-> <<>>]
    /\ outcome = [t \in Threads |-> NoOutcome]
    /\ prev = [t \in Threads |-> NoPrev]
    /\ refreshed = [t \in Threads |-> FALSE]

InitProcess ==
    /\ sys_modules = {}
    /\ namespace_defs = [m \in DOMAIN InstalledModules |-> OriginalDef]
    /\ loaded_defs = [m \in DOMAIN InstalledModules |-> NoDef]
    /\ interface = [t \in Threads |-> None]
    /\ instance = [t \in Threads |-> NoInstance]
    /\ InitCallers

Init ==
    /\ files = InitialFiles
    /\ InitProcess

Locals == <<existed, config, class_path, init_args, module_path, class_name, cls, instance>>

\* the definitions of the modules, installed and loaded, and of the class resolved
Defs == <<namespace_defs, loaded_defs, cls_def>>

\* the constructor calls of the running call, and the objects alive
Objects == <<ctor_calls, object_id, held, verdicts>>

\* an allocation that takes no object for alive
NothingLive == {}

\* the identities of the objects some caller holds or some call has constructed
Live == ({held[t] : t \in Threads} \cup {object_id[t] : t \in Threads}) \ {""}

\* the call of t runs a stage of the pipeline
Runs(t, stage) == stages' = [stages EXCEPT ![t] = Append(@, stage)]

\* a caller enters an entry point: a new frame
Begin(t, e, sect, path, iface, first) ==
    /\ pc[t] = "idle"
    /\ pc' = [pc EXCEPT ![t] = first]
    /\ entry' = [entry EXCEPT ![t] = e]
    /\ section' = [section EXCEPT ![t] = sect]
    /\ config_path' = [config_path EXCEPT ![t] = path]
    /\ interface' = [interface EXCEPT ![t] = iface]
    /\ refreshed' = [refreshed EXCEPT ![t] =
           /\ prev[t].valid /\ prev[t].edited
           /\ prev[t].path = TargetPath(path) /\ prev[t].section = sect]
    /\ prev' = [prev EXCEPT ![t] = NoPrev]
    /\ UNCHANGED <<files, sys_modules, Locals, outcome, Objects, stages, Defs>>

\* a failed stage that is run again
FailAndRetry(t, e) ==
    /\ outcome' = [outcome EXCEPT ![t] = e]
    /\ pc' = pc

\* the call ends by raising e
Fail(t, e) ==
    /\ outcome' = [outcome EXCEPT ![t] = e]
    /\ pc' = [pc EXCEPT ![t] = "done"]

Call_load_backend(t, sect, path, iface) ==
    Begin(t, "load_backend", sect, path, iface, "exists")

Call_wrapper(t, e, path) ==
    Begin(t, e, WrapperBinding(e).section, path, None, "wrapper_import")

Call_load_ai_backend(t, category, path) ==
    Begin(t, "load_ai_backend", category, path, AiInterface, "exists")

\* lines 68, 72, 76: the wrapper's import; then load_backend is called
WrapperImport(t) ==
    /\ pc[t] = "wrapper_import"
    /\ LET b == WrapperBinding(entry[t])
           r == ImportFrom(b.module, b.name, sys_modules)
       IN  /\ sys_modules' = sys_modules \cup r.loaded
           /\ loaded_defs' = AfterImport(r.loaded, loaded_defs, namespace_defs)
           /\ IF r.ok
              THEN /\ interface' = [interface EXCEPT ![t] = b.name]
                   /\ pc' = [pc EXCEPT ![t] = "exists"]
                   /\ UNCHANGED outcome
              ELSE /\ Fail(t, r.err)
                   /\ UNCHANGED interface
    /\ UNCHANGED <<files, entry, section, config_path, Locals, prev, refreshed, Objects,
                   stages, namespace_defs, cls_def>>

\* lines 14-16
CheckExists(t) ==
    /\ UNCHANGED Defs
    /\ pc[t] = "exists"
    /\ Runs(t, "load_yaml")
    /\ LET target_path == TargetPath(config_path[t])
           there == path_exists(files, target_path)
       IN  /\ existed' = [existed EXCEPT ![t] = there]
           /\ IF there
              THEN pc' = [pc EXCEPT ![t] = "open"] /\ UNCHANGED outcome
              ELSE Fail(t, ConfigNotFound(target_path))
    /\ UNCHANGED <<files, sys_modules, entry, section, config_path, interface, config,
                   class_path, init_args, module_path, class_name, cls, instance,
                   prev, refreshed, Objects>>

\* lines 17-18
OpenAndParse(t) ==
    /\ UNCHANGED Defs
    /\ pc[t] = "open"
    /\ UNCHANGED stages
    /\ LET target_path == TargetPath(config_path[t])
           doc == ReadManifest(files, target_path)
       IN  /\ config' = [config EXCEPT ![t] = doc]
           /\ IF doc.kind \in {"absent", "unparsable"}
              THEN Fail(t, ReadError(doc, target_path))
              ELSE pc' = [pc EXCEPT ![t] = "extract"] /\ UNCHANGED outcome
    /\ UNCHANGED <<files, sys_modules, entry, section, config_path, interface, existed,
                   class_path, init_args, module_path, class_name, cls, instance,
                   prev, refreshed, Objects>>

\* lines 52-57
Extract(t) ==
    /\ UNCHANGED Defs
    /\ pc[t] = "extract"
    /\ Runs(t, "extract")
    /\ LET r == ExtractDescriptor(config[t], section[t])
       IN  IF r.ok
           THEN /\ class_path' = [class_path EXCEPT ![t] = r.class_path]
                /\ init_args' = [init_args EXCEPT ![t] = r.init_args]
                /\ pc' = [pc EXCEPT ![t] = "load_class"]
                /\ UNCHANGED outcome
           ELSE /\ Fail(t, r.err)
                /\ UNCHANGED <<class_path, init_args>>
    /\ UNCHANGED <<files, sys_modules, entry, section, config_path, interface, existed,
                   config, module_path, class_name, cls, instance, prev, refreshed,
                   Objects>>

\* line 59 (lines 26-28)
LoadClass(t) ==
    /\ pc[t] = "load_class"
    /\ Runs(t, "load_class")
    /\ LET r == _load_class(class_path[t], sys_modules)
       IN  /\ sys_modules' = sys_modules \cup r.loaded
           /\ loaded_defs' = AfterImport(r.loaded, loaded_defs, namespace_defs)
           /\ cls_def' = [cls_def EXCEPT ![t] =
                  IF r.ok
                  THEN import_definition(Join(r.module_path), loaded_defs, namespace_defs)
                  ELSE NoDef]
           /\ UNCHANGED namespace_defs
           /\ module_path' = [module_path EXCEPT ![t] = r.module_path]
           /\ class_name' = [class_name EXCEPT ![t] = r.class_name]
           /\ cls' = [cls EXCEPT ![t] = r.cls]
           /\ IF r.ok
              THEN pc' = [pc EXCEPT ![t] = "construct"] /\ UNCHANGED outcome
              ELSE Fail(t, r.err)
    /\ UNCHANGED <<files, entry, section, config_path, interface, existed, config,
                   class_path, init_args, instance, prev, refreshed, Objects>>

\* line 60
Instantiate(t) ==
    /\ UNCHANGED Defs
    /\ pc[t] = "construct"
    /\ Runs(t, "construct")
    /\ LET r == Construct(cls[t], init_args[t])
       IN  /\ instance' = [instance EXCEPT ![t] = r.instance]
           /\ ctor_calls' = [ctor_calls EXCEPT ![t] =
                  IF init_args[t].kind = "map" THEN @ + 1 ELSE @]
           /\ object_id' = [object_id EXCEPT ![t] =
                  IF r.ok THEN new_object(Live) ELSE ""]
           /\ IF r.ok
              THEN pc' = [pc EXCEPT ![t] = "validate"] /\ UNCHANGED outcome
              ELSE Fail(t, r.err)
    /\ UNCHANGED <<files, sys_modules, entry, section, config_path, interface, existed,
                   config, class_path, init_args, module_path, class_name, cls,
                   held, verdicts, prev, refreshed>>

\* lines 62-63
ValidateAndReturn(t) ==
    /\ UNCHANGED Defs
    /\ pc[t] = "validate"
    /\ Runs(t, "validate")
    /\ LET v == Verdict(instance[t], interface[t], Len(verdicts[t]) + 1)
       IN  /\ outcome' = [outcome EXCEPT ![t] =
                  IF v.status = "raised" THEN v ELSE Return(instance[t])]
           /\ verdicts' = [verdicts EXCEPT ![t] = Append(@, v)]
    /\ pc' = [pc EXCEPT ![t] = "done"]
    /\ UNCHANGED <<files, sys_modules, entry, section, config_path, interface, Locals,
                   prev, refreshed, ctor_calls, object_id, held>>

\* a core that keeps what a call had in its locals after the call
RetainLocal(v, empty) == v

\* a local of load_backend once the call is over: the function assigns no
\* global, no attribute and no container, so that nothing of the core refers to
\* the value any more
ReleaseLocal(v, empty) == empty

\* the caller has the outcome and keeps the instance, if it got one, in place
\* of the one it kept before; the frame is gone
Finish(t) ==
    /\ pc[t] = "done"
    /\ pc' = [pc EXCEPT ![t] = "idle"]
    /\ prev' = [prev EXCEPT ![t] =
           [valid |-> entry[t] \notin Wrappers, path |-> TargetPath(config_path[t]),
            section |-> section[t], edited |-> FALSE]]
    /\ entry' = [entry EXCEPT ![t] = ""]
    /\ section' = [section EXCEPT ![t] = ""]
    /\ config_path' = [config_path EXCEPT ![t] = None]
    /\ interface' = [interface EXCEPT ![t] = None]
    /\ existed' = [existed EXCEPT ![t] = FALSE]
    /\ config' = [config EXCEPT ![t] = ReleaseLocal(@, FileAbsent)]
    /\ class_path' = [class_path EXCEPT ![t] = BackendNonStr]
    /\ init_args' = [init_args EXCEPT ![t] = ArgsNull]
    /\ module_path' = [module_path EXCEPT ![t] = <<>>]
    /\ class_name' = [class_name EXCEPT ![t] = <<>>]
    /\ cls' = [cls EXCEPT ![t] = ""]
    /\ instance' = [instance EXCEPT ![t] = ReleaseLocal(@, NoInstance)]
    /\ outcome' = [outcome EXCEPT ![t] = NoOutcome]
    /\ ctor_calls' = [ctor_calls EXCEPT ![t] = 0]
    /\ object_id' = [object_id EXCEPT ![t] = ""]
    /\ held' = [held EXCEPT ![t] =
           IF outcome[t].status = "returned" THEN object_id[t] ELSE @]
    /\ verdicts' = [verdicts EXCEPT ![t] = <<>>]
    /\ stages' = [stages EXCEPT ![t] = <<>>]
    /\ cls_def' = [cls_def EXCEPT ![t] = NoDef]
    /\ UNCHANGED <<namespace_defs, loaded_defs>>
    /\ refreshed' = [refreshed EXCEPT ![t] = FALSE]
    /\ UNCHANGED <<files, sys_modules>>

\* something outside the calls rewrites a manifest file, or removes it
EditManifest(p, doc) ==
    /\ doc # files[p]
    /\ files' = [files EXCEPT ![p] = doc]
    /\ prev' = [t \in Threads |->
           IF prev[t].valid /\ prev[t].path = p
           THEN [prev[t] EXCEPT !.edited = TRUE] ELSE prev[t]]
    /\ UNCHANGED <<sys_modules, pc, entry, section, config_path, interface, Locals,
                   outcome, refreshed, Objects, stages, Defs>>

WriteManifest(p, doc) == doc \in DocsAt(p) /\ EditManifest(p, doc)
RemoveManifest(p) == EditManifest(p, FileAbsent)

CallerStep(t) ==
    \/ \E sect \in CallSections, path \in PathArgs, iface \in CallInterfaces :
           Call_load_backend(t, sect, path, iface)
    \/ \E e \in Wrappers, path \in PathArgs : Call_wrapper(t, e, path)
    \/ \E category \in CallSections, path \in PathArgs : Call_load_ai_backend(t, category, path)
    \/ WrapperImport(t)
    \/ CheckExists(t)
    \/ OpenAndParse(t)
    \/ Extract(t)
    \/ LoadClass(t)
    \/ Instantiate(t)
    \/ ValidateAndReturn(t)
    \/ Finish(t)

Environment ==
    \/ \E p \in FilePaths : \E doc \in DocsAt(p) : WriteManifest(p, doc)
    \/ \E p \in FilePaths : RemoveManifest(p)

Next ==
    \/ \E t \in Sequential : CallerStep(t)
    \/ Environment

Spec == Init /\ [][Next]_vars

----------------------------------------------------------------------------
(* Two callers at once, on manifests that nothing rewrites *)

\* the manifests at conf.yaml, and whether there is one at the default path
ConcurrentDocs == {ManifestA, ManifestB, ManifestD, ManifestE}

\* the load_backend calls the two callers make: section, config_path, interface
ConcurrentCalls ==
    {<<"storage", "conf.yaml", StorageInterface>>, <<"storage", "conf.yaml", None>>,
     <<"cache", "conf.yaml", CacheInterface>>, <<"ai_nlp", "conf.yaml", None>>,
     <<"cache", None, CacheInterface>>}

InitConcurrent ==
    /\ \E doc \in ConcurrentDocs, dflt \in {FileAbsent, DefaultManifest} :
           files = [p \in FilePaths |-> IF p = "conf.yaml" THEN doc ELSE dflt]
    /\ InitProcess

ConcurrentStep(t) ==
    \/ \E call \in ConcurrentCalls : Call_load_backend(t, call[1], call[2], call[3])
    \/ CheckExists(t)
    \/ OpenAndParse(t)
    \/ Extract(t)
    \/ LoadClass(t)
    \/ Instantiate(t)
    \/ ValidateAndReturn(t)
    \/ Finish(t)

NextConcurrent == \E t \in Threads : ConcurrentStep(t)

SpecConcurrent == InitConcurrent /\ [][NextConcurrent]_vars

----------------------------------------------------------------------------
(* One caller, while the installed definition of a backend module is replaced *)

\* the manifests at conf.yaml
ReloadDocs == {ManifestA, ManifestG}

InitReload ==
    /\ \E doc \in ReloadDocs :
           files = [p \in FilePaths |-> IF p = "conf.yaml" THEN doc ELSE FileAbsent]
    /\ InitProcess

\* the modules whose installed definition gets replaced
ReplacedModules == {"pkgX", "a.b.c"}

\* the module m is installed anew, with its classes defined differently
RedefineNamespace(m) ==
    /\ namespace_defs[m] = OriginalDef
    /\ namespace_defs' = [namespace_defs EXCEPT ![m] = ReplacedDef]
    /\ UNCHANGED <<files, sys_modules, loaded_defs, cls_def, pc, entry, section,
                   config_path, interface, Locals, outcome, Objects, stages, prev,
                   refreshed>>

ReloadStep(t) ==
    \/ \E sect \in Sections, iface \in CallInterfaces :
           Call_load_backend(t, sect, "conf.yaml", iface)
    \/ CheckExists(t)
    \/ OpenAndParse(t)
    \/ Extract(t)
    \/ LoadClass(t)
    \/ Instantiate(t)
    \/ ValidateAndReturn(t)
    \/ Finish(t)

NextReload ==
    \/ \E t \in Sequential : ReloadStep(t)
    \/ \E m \in ReplacedModules : RedefineNamespace(m)

SpecReload == InitReload /\ [][NextReload]_vars

----------------------------------------------------------------------------
(* _validate_interface called on its own, twice, on an instance a caller holds *)

\* the named arguments instances were constructed with
KwArgs == {{}, RootArg, HostArg, RootArg \cup HostArg}

\* the instances the installed backends can give
Instances ==
    {i \in [type : DOMAIN TypeTable, kwargs : KwArgs] :
        Construct(i.type, ArgsMap(i.kwargs)).ok}

InitValidate ==
    /\ files = InitialFiles
    /\ sys_modules = {}
    /\ namespace_defs = [m \in DOMAIN InstalledModules |-> OriginalDef]
    /\ loaded_defs = [m \in DOMAIN InstalledModules |-> NoDef]
    /\ \E inst \in Instances, iface \in Interfaces \cup {None} :
           /\ instance = [t \in Threads |-> IF t \in Sequential THEN inst ELSE NoInstance]
           /\ interface = [t \in Threads |-> IF t \in Sequential THEN iface ELSE None]
    /\ InitCallers

\* lines 31-36, called with the caller's instance and contract: the caller has
\* the verdict, and the function has assigned nothing
CheckConformance(t, before, after) ==
    /\ instance[t] # NoInstance
    /\ pc[t] = before
    /\ pc' = [pc EXCEPT ![t] = after]
    /\ verdicts' = [verdicts EXCEPT ![t] =
           Append(@, Verdict(instance[t], interface[t], Len(@) + 1))]
    /\ UNCHANGED <<files, sys_modules, entry, section, config_path, interface, Locals,
                   ctor_calls, object_id, outcome, stages, held, prev, refreshed, Defs>>

FirstCheck(t) == CheckConformance(t, "idle", "checked")
SecondCheck(t) == CheckConformance(t, "checked", "rechecked")

NextValidate == \E t \in Sequential : FirstCheck(t) \/ SecondCheck(t)

SpecValidate == InitValidate /\ [][NextValidate]_vars

----------------------------------------------------------------------------
(* Vocabulary of the properties *)

Done(t) == pc[t] = "done"

\* the call of t has read and parsed its manifest
HasConfig(t) ==
    \/ pc[t] \in {"extract", "load_class", "construct", "validate"}
    \/ Done(t) /\ outcome[t].stage \in {"extract", "load_class", "construct", "validate", "return"}

\* the section of the manifest read that the call of t asks for
Requested(t) == config[t].sections[section[t]]

\* the section names a type of the host environment by a string identifier
NamesType(sec) ==
    /\ sec.kind = "map" /\ sec.has_backend /\ sec.backend.isstr
    /\ Join(sec.backend.toks) \in DOMAIN TypeTable

DeclaredArgs(sec) == IF sec.has_init_args THEN sec.init_args ELSE [kind |-> "map", kw |-> {}]

\* the constructor of typ accepts the keyword arguments args
Accepts(typ, args) ==
    /\ args.kind = "map"
    /\ ~TypeTable[typ].abstract
    /\ \/ TypeTable[typ].varkw
       \/ Names(args.kw) \subseteq TypeTable[typ].required \cup TypeTable[typ].optional
    /\ TypeTable[typ].required \subseteq Names(args.kw)
    /\ TypeTable[typ].raises = ""

\* typ is a member of the contract iface
MemberOf(typ, iface) == iface \in TypeTable[typ].bases

\* the caller-supplied path if it is a non-empty string, else the default path
EffectivePath(t) ==
    IF config_path[t] = None \/ config_path[t] = ""
    THEN DEFAULT_GLOBAL_CONFIG_PATH ELSE config_path[t]

----------------------------------------------------------------------------
(* C1..C5 *)

\* C1: whenever the requested section names, by a well-formed identifier, a type
\* whose construction succeeds and which satisfies the supplied contract, the
\* call returns an instance, and every instance returned is of exactly the type
\* the requested section's backend field names
C1_ReturnsDeclaredType ==
    \A t \in Threads :
        /\ outcome[t].status = "returned" =>
              /\ NamesType(Requested(t))
              /\ outcome[t].value.type = Join(Requested(t).backend.toks)
        /\ ( /\ Done(t) /\ HasConfig(t) /\ config[t].kind = "map"
             /\ NamesType(Requested(t))
             /\ Accepts(Join(Requested(t).backend.toks), DeclaredArgs(Requested(t)))
             /\ interface[t] # None =>
                    MemberOf(Join(Requested(t).backend.toks), interface[t]) )
           => outcome[t].status = "returned"

\* Scenario A: the storage section of a manifest whose sections name four
\* different types, resolved with the storage contract, gives a LocalDisk
C1_Witness ==
    \E t \in Threads :
        /\ Done(t) /\ config[t] = ManifestA
        /\ section[t] = "storage" /\ interface[t] = StorageInterface
        /\ outcome[t].status = "returned"
        /\ outcome[t].value.type = "pkgX.LocalDisk"

\* C2 (as claimed): a manifest that loads and in which the requested section is
\* absent or falsy makes load_backend raise ValueError 'Missing config section'
\* naming the section, and never any other error
C2_MissingSectionRaisesValueError ==
    \A t \in Threads :
        ( /\ Done(t) /\ existed[t] /\ config[t].kind \in {"none", "seq", "map"}
          /\ outcome[t].stage # "wrapper_import"
          /\ Requested(t).kind \in {"absent", "falsy"} )
        => /\ outcome[t].status = "raised"
           /\ outcome[t].exc = "ValueError"
           /\ outcome[t].msg = "Missing config section"
           /\ outcome[t].names = section[t]

\* C3: when the effective path does not exist as _load_yaml_config checks it, the
\* call ends there with FileNotFoundError 'CoreX config not found' naming the
\* effective path; a call that failed for a missing file holds no section, no
\* class and no instance, and a file that vanishes before it is opened also
\* gives FileNotFoundError naming the path
C3_ManifestNotFound ==
    /\ [][\A t \in Threads :
            ( /\ pc[t] = "exists" /\ pc'[t] # "exists"
              /\ files[EffectivePath(t)].kind = "absent" )
            => /\ pc'[t] = "done"
               /\ outcome'[t].status = "raised"
               /\ outcome'[t].exc = "FileNotFoundError"
               /\ outcome'[t].msg = "CoreX config not found"
               /\ outcome'[t].names = EffectivePath(t)
               /\ sys_modules' = sys_modules]_vars
    /\ [](\A t \in Threads :
            (Done(t) /\ outcome[t].stage = "load_yaml" /\ config[t].kind = "absent")
            => /\ outcome[t].exc = "FileNotFoundError"
               /\ outcome[t].names = EffectivePath(t)
               /\ class_path[t] = BackendNonStr /\ module_path[t] = <<>>
               /\ cls[t] = "" /\ instance[t] = NoInstance)

\* Scenario D: a call naming a path with no file behind it has failed, while a
\* manifest exists at the default path
C3_Witness ==
    \E t \in Threads :
        /\ Done(t) /\ config_path[t] = "conf.yaml"
        /\ ~existed[t]
        /\ files[DEFAULT_GLOBAL_CONFIG_PATH].kind = "map"
        /\ outcome[t].exc = "FileNotFoundError"
        /\ outcome[t].names = "conf.yaml"

\* C4: when a contract is supplied and the constructed instance is not a member
\* of it, the call raises TypeError 'does not implement required interface'
\* naming the contract, and returns nothing
C4_ContractViolation ==
    \A t \in Threads :
        ( /\ Done(t) /\ instance[t] # NoInstance
          /\ interface[t] # None /\ ~MemberOf(instance[t].type, interface[t]) )
        => /\ outcome[t].status = "raised"
           /\ outcome[t].exc = "TypeError"
           /\ outcome[t].msg = "Loaded class does not implement required interface"
           /\ outcome[t].names = interface[t]
           /\ outcome[t].value = NoInstance

\* Scenario C: storage.backend names NotAStorage, resolved with the storage contract
C4_Witness ==
    \E t \in Threads :
        /\ Done(t) /\ interface[t] = StorageInterface
        /\ instance[t].type = "pkgX.NotAStorage"
        /\ outcome[t].stage = "validate"
        /\ outcome[t].names = StorageInterface

\* C5: for an identifier with a separator, the namespace and the member name
\* _load_class works with are the identifier cut at its last separator: put
\* together again they give the identifier, and the member name holds no
\* separator; the namespace is the module imported and the member the one found
C5_SplitsAtLastSeparator ==
    \A t \in Threads :
        ( /\ \/ pc[t] \in {"construct", "validate"}
             \/ Done(t) /\ outcome[t].stage \in {"load_class", "construct", "validate", "return"}
          /\ class_path[t].isstr
          /\ \E i \in 1..Len(class_path[t].toks) : class_path[t].toks[i] = SEP )
        => /\ module_path[t] \o <<SEP>> \o class_name[t] = class_path[t].toks
           /\ \A i \in 1..Len(class_name[t]) : class_name[t][i] # SEP
           /\ cls[t] # "" =>
                /\ Join(module_path[t]) \in sys_modules
                /\ cls[t] = Join(module_path[t]) \o SEP \o Join(class_name[t])
           /\ (Done(t) /\ outcome[t].exc = "ModuleNotFoundError") =>
                outcome[t].names = Join(module_path[t])
           /\ (Done(t) /\ outcome[t].exc = "AttributeError") =>
                outcome[t].names = Join(class_name[t])

\* Scenario E: a.b.c.MyClass has loaded namespace a.b.c and found MyClass
C5_Witness ==
    \E t \in Threads :
        /\ Done(t) /\ class_path[t].toks = IdMyClass
        /\ module_path[t] = <<"a", SEP, "b", SEP, "c">>
        /\ class_name[t] = <<"MyClass">>
        /\ "a.b.c" \in sys_modules
        /\ outcome[t].status = "returned"

----------------------------------------------------------------------------
(* C6..C10 *)

\* the constructor of load_backend's line 60 has been called
ConstructorCalled(t) ==
    \/ pc[t] = "validate"
    \/ Done(t) /\ outcome[t].stage \in {"construct", "validate", "return"}

\* C6: the instance holds exactly the names and values of the section's
\* init_args (none added, dropped or renamed), and init_args with a name the
\* constructor does not take, or without one it requires, end the call with the
\* constructor's TypeError and no instance
C6_InitArgsPassedExactly ==
    \A t \in Threads :
        /\ instance[t] # NoInstance =>
              /\ DeclaredArgs(Requested(t)).kind = "map"
              /\ instance[t].kwargs = DeclaredArgs(Requested(t)).kw
        /\ ( /\ Done(t) /\ ConstructorCalled(t)
             /\ DeclaredArgs(Requested(t)).kind = "map"
             /\ LET sig == TypeTable[cls[t]]
                    given == Names(DeclaredArgs(Requested(t)).kw)
                IN  \/ ~sig.varkw /\ ~(given \subseteq sig.required \cup sig.optional)
                    \/ ~(sig.required \subseteq given) )
           => /\ outcome[t].status = "raised"
              /\ outcome[t].stage = "construct"
              /\ outcome[t].exc = "TypeError"
              /\ instance[t] = NoInstance

\* a backend was returned that was given both of the manifest's arguments
C6_Witness ==
    \E t \in Threads :
        /\ Done(t) /\ outcome[t].status = "returned"
        /\ Requested(t).init_args = ArgsMap(RootArg \cup HostArg)
        /\ outcome[t].value.kwargs = {<<"root", "/tmp/x">>, <<"host", "localhost">>}

\* C7: every call takes its manifest from the file as it is when the call reads
\* it (its existence when checked, its content when opened), and the call's
\* outcome is the one that content determines; nothing an earlier call read
\* takes part
C7_ManifestFresh ==
    /\ [][\A t \in Threads :
            /\ (pc[t] = "exists" /\ pc'[t] # "exists") =>
                  existed'[t] = (files[EffectivePath(t)].kind # "absent")
            /\ (pc[t] = "open" /\ pc'[t] # "open") =>
                  config'[t] = files[EffectivePath(t)]]_vars
    /\ [](\A t \in Threads :
            (Done(t) /\ outcome[t].stage # "wrapper_import") =>
                outcome[t] = load_backend(existed[t], config[t], section[t],
                                          config_path[t], interface[t]))

\* a call repeating the caller's previous path and section, after the manifest
\* was edited in between, has ended on content that is not the original one
C7_Witness ==
    \E t \in Threads :
        /\ Done(t) /\ refreshed[t] /\ HasConfig(t)
        /\ config[t] # InitialFiles[EffectivePath(t)]
        /\ config[t] = files[EffectivePath(t)]
        /\ outcome[t].status = "returned"

\* C8 (as claimed): a load_cache_backend call that ends while the manifest at
\* its path exists, parses and has no cache key ends by raising ValueError
\* 'Missing config section' naming cache
C8_CacheSectionMissing ==
    [][\A t \in Threads :
        ( /\ entry[t] = "load_cache_backend" /\ pc[t] # "done" /\ pc'[t] = "done"
          /\ files[EffectivePath(t)].kind = "map"
          /\ files[EffectivePath(t)].sections["cache"].kind = "absent" )
        => /\ outcome'[t].status = "raised"
           /\ outcome'[t].exc = "ValueError"
           /\ outcome'[t].msg = "Missing config section"
           /\ outcome'[t].names = "cache"]_vars

\* C9 (as claimed): a typed wrapper ends as load_backend does with the wrapper's
\* section and contract on the same manifest, and no outcome comes from a step
\* of the wrapper's own
C9_WrappersForward ==
    \A t \in Threads :
        (Done(t) /\ entry[t] \in Wrappers) =>
            LET b == WrapperBinding(entry[t])
                doc == files[EffectivePath(t)]
                same == load_backend(doc.kind # "absent", doc, b.section,
                                     config_path[t], b.name)
            IN  /\ outcome[t].stage # "wrapper_import"
                /\ outcome[t].status = same.status
                /\ outcome[t].exc = same.exc
                /\ outcome[t].value.type = same.value.type

\* C10: load_ai_backend passes no contract: it ends as load_backend does without
\* one on what the call read, never at the conformance check, and returns
\* whatever instance was constructed
C10_AiNoConformanceCheck ==
    \A t \in Threads :
        entry[t] = "load_ai_backend" =>
            /\ interface[t] = None
            /\ Done(t) =>
                /\ outcome[t] = load_backend(existed[t], config[t], section[t],
                                             config_path[t], None)
                /\ outcome[t].stage # "validate"
                /\ instance[t] # NoInstance => outcome[t] = Return(instance[t])

\* load_ai_backend returned an instance of a type that derives from no contract
C10_Witness ==
    \E t \in Threads :
        /\ Done(t) /\ entry[t] = "load_ai_backend"
        /\ outcome[t].status = "returned"
        /\ TypeTable[outcome[t].value.type].bases = {}

----------------------------------------------------------------------------
(* C11..C20 *)

\* the kind of section 7's taxonomy an outcome is: the error the code raises
\* where the kind's trigger is met, "none" for any other error
TaxonomyKind(o) ==
    CASE o.stage = "load_yaml" /\ o.exc = "FileNotFoundError" -> "ManifestNotFound"
      [] o.stage = "load_yaml" /\ o.exc = "YAMLError" -> "ManifestParseError"
      [] o.stage = "extract" /\ o.exc = "ValueError" -> "CapabilitySectionMissing"
      [] o.stage = "extract" /\ o.exc = "KeyError" -> "BackendFieldMissing"
      [] o.stage = "load_class" /\ o.exc = "ModuleNotFoundError" -> "NamespaceNotFound"
      [] o.stage = "load_class" /\ o.msg = "module has no attribute" -> "TypeNotFound"
      [] o.stage = "construct" -> "ConstructionError"
      [] o.stage = "validate" -> "ContractViolation"
      [] OTHER -> "none"

\* C11 (as claimed): a failed load_backend call gives its caller one error and no
\* instance, the error is of one of the eight kinds of the taxonomy whatever the
\* manifest holds, and its exception class tells the failing stage: no manifest,
\* section and contract make load_backend raise the same class at another stage
C11_OneKindPerStage ==
    \A t \in Threads :
        (Done(t) /\ entry[t] = "load_backend" /\ outcome[t].status = "raised") =>
            /\ outcome[t].value = NoInstance
            /\ TaxonomyKind(outcome[t]) # "none"
            /\ \A doc \in Docs, sect \in CallSections, iface \in CallInterfaces :
                   LET o == load_backend(TRUE, doc, sect, config_path[t], iface)
                   IN  (o.status = "raised" /\ o.exc = outcome[t].exc)
                           => o.stage = outcome[t].stage

\* the section is there and not empty, and has no backend field
LacksBackend(sec) ==
    /\ \/ sec.kind = "nonmap"
       \/ sec.kind = "map" /\ (sec.has_init_args \/ sec.other_keys)
    /\ ~sec.has_backend

\* C12: a requested section that is there, not empty and without a backend field
\* ends the call at the lookup of 'backend' (line 56) with that lookup's error,
\* KeyError when the section is a mapping, and never with the ValueError of a
\* missing section; no class path, module, class or instance exists and the
\* constructor was not called
C12_BackendFieldMissing ==
    \A t \in Threads :
        (Done(t) /\ HasConfig(t) /\ config[t].kind = "map" /\ LacksBackend(Requested(t)))
        => /\ outcome[t].status = "raised"
           /\ outcome[t].stage = "extract"
           /\ outcome[t].names = "backend"
           /\ outcome[t].msg # "Missing config section"
           /\ outcome[t].exc # "ValueError"
           /\ Requested(t).kind = "map" => outcome[t].exc = "KeyError"
           /\ class_path[t] = BackendNonStr /\ module_path[t] = <<>> /\ cls[t] = ""
           /\ instance[t] = NoInstance /\ ctor_calls[t] = 0

\* a call for a section that holds init_args and no backend has raised KeyError
C12_Witness ==
    \E t \in Threads :
        /\ Done(t) /\ HasConfig(t) /\ Requested(t) = SecNoBackend
        /\ outcome[t].exc = "KeyError" /\ outcome[t].names = "backend"

\* the manifest the call of t read, with the requested key absent where it maps
\* to an empty section and mapping to an empty section where it is absent
AbsentForEmpty(t) ==
    [config[t] EXCEPT !.sections[section[t]] =
        IF Requested(t).kind = "absent" THEN SecFalsy ELSE SecAbsent]

\* C13 (amended): a manifest without the requested key and the same manifest
\* with the key mapping to an empty section give load_backend the same outcome,
\* ValueError 'Missing config section' naming the section; what differs is the
\* outcome for a section that is there and lacks its backend field
C13_AbsentAndEmptyAlike ==
    \A t \in Threads :
        ( /\ Done(t) /\ HasConfig(t) /\ config[t].kind = "map"
          /\ Requested(t).kind \in {"absent", "falsy"} )
        => /\ outcome[t] = Raise("ValueError", "Missing config section", section[t], "extract")
           /\ outcome[t] = Pipeline(AbsentForEmpty(t), section[t], interface[t])
           /\ outcome[t] # Pipeline([config[t] EXCEPT !.sections[section[t]] = SecNoBackend],
                                    section[t], interface[t])

\* C13 (as claimed): the outcome of load_backend on a manifest without the
\* requested key differs from its outcome on the same manifest with the key
\* mapping to an empty section
C13_AbsentAndEmptyDistinct ==
    \A t \in Threads :
        ( /\ Done(t) /\ HasConfig(t) /\ config[t].kind = "map"
          /\ Requested(t).kind \in {"absent", "falsy"} )
        => outcome[t] # Pipeline(AbsentForEmpty(t), section[t], interface[t])

\* a call for a key that maps to an empty section has raised ValueError
C13_Witness ==
    \E t \in Threads :
        /\ Done(t) /\ HasConfig(t) /\ config[t].kind = "map"
        /\ Requested(t) = SecFalsy
        /\ outcome[t].exc = "ValueError" /\ outcome[t].names = section[t]

\* the manifest the call of t read, with init_args: {} written into the
\* requested section
WithEmptyInitArgs(t) ==
    [config[t] EXCEPT !.sections[section[t]] =
        [Requested(t) EXCEPT !.has_init_args = TRUE, !.init_args = ArgsMap({})]]

\* C14: for a section with a backend field and no init_args field the call gets
\* past the extraction with init_args an empty mapping, the constructor is
\* called with no named argument, and the call ends as it does on the same
\* manifest with init_args: {} in the section
C14_InitArgsDefaultEmpty ==
    \A t \in Threads :
        ( /\ HasConfig(t) /\ config[t].kind = "map" /\ Requested(t).kind = "map"
          /\ Requested(t).has_backend /\ ~Requested(t).has_init_args )
        => /\ (pc[t] \in {"load_class", "construct", "validate"} \/ Done(t)) =>
                 init_args[t] = ArgsMap({})
           /\ ConstructorCalled(t) => ctor_calls[t] = 1
           /\ instance[t] # NoInstance => instance[t].kwargs = {}
           /\ Done(t) =>
                 /\ outcome[t].stage # "extract"
                 /\ outcome[t] = Pipeline(WithEmptyInitArgs(t), section[t], interface[t])

\* a backend named without init_args was constructed with no argument and returned
C14_Witness ==
    \E t \in Threads :
        /\ Done(t) /\ HasConfig(t) /\ Requested(t) = SecBackendOnly(IdNotAStorage)
        /\ ctor_calls[t] = 1
        /\ outcome[t].status = "returned" /\ outcome[t].value.kwargs = {}

\* C15: a call that opens a file whose content yaml.safe_load cannot parse ends
\* there with the parser's YAMLError, with nothing imported and no constructor
\* called by that step; a call that ended so has looked up no section, holds no
\* class path, module, class or instance
C15_ManifestParseError ==
    /\ [][\A t \in Threads :
            ( /\ pc[t] = "open" /\ pc'[t] # "open"
              /\ files[EffectivePath(t)].kind = "unparsable" )
            => /\ pc'[t] = "done"
               /\ outcome'[t].status = "raised"
               /\ outcome'[t].exc = "YAMLError"
               /\ outcome'[t].stage = "load_yaml"
               /\ sys_modules' = sys_modules
               /\ ctor_calls' = ctor_calls]_vars
    /\ [](\A t \in Threads :
            (Done(t) /\ existed[t] /\ config[t].kind = "unparsable")
            => /\ outcome[t].exc = "YAMLError" /\ outcome[t].value = NoInstance
               /\ class_path[t] = BackendNonStr /\ init_args[t] = ArgsNull
               /\ module_path[t] = <<>> /\ cls[t] = ""
               /\ instance[t] = NoInstance /\ ctor_calls[t] = 0)

\* a call found its file, could not parse it and has raised YAMLError
C15_Witness ==
    \E t \in Threads :
        /\ Done(t) /\ existed[t] /\ config[t] = DocUnparsable
        /\ outcome[t].exc = "YAMLError"

\* _load_class of the call of t has split an identifier and gone on to import
Resolving(t) ==
    /\ \/ pc[t] \in {"construct", "validate"}
       \/ Done(t) /\ outcome[t].stage \in {"load_class", "construct", "validate", "return"}
    /\ class_path[t].isstr
    /\ \E i \in 1..Len(class_path[t].toks) : class_path[t].toks[i] = SEP

\* the host environment can load the namespace, and the namespace defines the member
NamespaceLoads(mp) == mp # <<>> /\ Join(mp) \in DOMAIN InstalledModules
Defines(mp, cn) == Join(cn) \in InstalledModules[Join(mp)]

\* the call of t ended with the import's error, or with the member lookup's
NamespaceNotFound(t) ==
    /\ Done(t) /\ outcome[t].status = "raised" /\ outcome[t].stage = "load_class"
    /\ outcome[t].msg \in {"No module named", "Empty module name",
                           "relative import requires package"}
TypeNotFound(t) ==
    /\ Done(t) /\ outcome[t].status = "raised" /\ outcome[t].stage = "load_class"
    /\ outcome[t].exc = "AttributeError" /\ outcome[t].msg = "module has no attribute"

\* C16: _load_class ends with the import's error (ModuleNotFoundError naming the
\* module, for a namespace that has a name) exactly when the host environment
\* cannot load the namespace part, and with AttributeError naming the member
\* exactly when the namespace loads and does not define the final segment; in
\* both cases there is no class, no constructor call and no instance
C16_NamespaceOrTypeNotFound ==
    \A t \in Threads :
        Resolving(t) =>
            /\ NamespaceNotFound(t) <=> ~NamespaceLoads(module_path[t])
            /\ TypeNotFound(t) <=>
                  /\ NamespaceLoads(module_path[t])
                  /\ ~Defines(module_path[t], class_name[t])
            /\ (NamespaceNotFound(t) /\ module_path[t] # <<>>) =>
                  /\ outcome[t].exc = "ModuleNotFoundError"
                  /\ outcome[t].names = Join(module_path[t])
            /\ TypeNotFound(t) =>
                  /\ outcome[t].names = Join(class_name[t])
                  /\ Join(module_path[t]) \in sys_modules
            /\ (NamespaceNotFound(t) \/ TypeNotFound(t)) =>
                  /\ cls[t] = "" /\ ctor_calls[t] = 0
                  /\ instance[t] = NoInstance /\ outcome[t].value = NoInstance

\* pkgX was imported and has no member Missing: the call ended with AttributeError
C16_Witness ==
    \E t \in Threads :
        /\ Resolving(t) /\ class_path[t].toks = IdNoType
        /\ TypeNotFound(t) /\ "pkgX" \in sys_modules
        /\ outcome[t].names = "Missing"

\* what the constructor of typ raises when called with the named arguments
\* args: TypeError when Python cannot bind them or typ is abstract, else what
\* the constructor's body raises ("": nothing)
ConstructorRaises(typ, args) ==
    IF \/ TypeTable[typ].abstract
       \/ ~TypeTable[typ].varkw
            /\ ~(Names(args.kw) \subseteq TypeTable[typ].required \cup TypeTable[typ].optional)
       \/ ~(TypeTable[typ].required \subseteq Names(args.kw))
    THEN "TypeError"
    ELSE TypeTable[typ].raises

C18_NoContractNoCheck ==
    /\ \A typ \in DOMAIN TypeTable, kw \in {{}, RootArg, HostArg} :
           _validate_interface([type |-> typ, kwargs |-> kw], None) = NoOutcome
    /\ \A t \in Threads :
           (interface[t] = None /\ entry[t] = "load_backend") =>
               /\ pc[t] = "validate" =>
                     _validate_interface(instance[t], interface[t]) = NoOutcome
               /\ (Done(t) /\ instance[t] # NoInstance) =>
                     /\ outcome[t] = Return(instance[t])
                     /\ outcome[t].value.type = cls[t]

\* load_backend, called without a contract, returned an instance of a type that
\* derives from none
C18_Witness ==
    \E t \in Threads :
        /\ Done(t) /\ entry[t] = "load_backend" /\ interface[t] = None
        /\ outcome[t].status = "returned"
        /\ outcome[t].value.type = "pkgX.NotAStorage"
        /\ TypeTable["pkgX.NotAStorage"].bases = {}

C20_FreshInstance ==
    \A t \in Threads :
        outcome[t].status = "returned" =>
            /\ ctor_calls[t] = 1
            /\ outcome[t].value = instance[t]
            /\ object_id[t] # ""
            /\ \A u \in Threads : object_id[t] # held[u]
            /\ \A u \in Threads \ {t} : object_id[t] # object_id[u]

\* a caller that keeps the instance of an earlier successful call has been
\* returned another
C20_Witness ==
    \E t \in Threads :
        /\ Done(t) /\ outcome[t].status = "returned"
        /\ held[t] # "" /\ object_id[t] # "" /\ object_id[t] # held[t]
        /\ ctor_calls[t] = 1

----------------------------------------------------------------------------
(* C21..C30 *)

\* what load_backend gives the call of t when it runs alone on the files as
\* they are, with nothing imported before
AloneOutcome(t) ==
    LET p == EffectivePath(t)
    IN  load_backend(files[p].kind # "absent", files[p], section[t], config_path[t],
                     interface[t])

\* the parameters, locals and result of the call of t, and what its caller keeps
Frame(t) ==
    <<entry[t], section[t], config_path[t], interface[t], existed[t], config[t],
      class_path[t], init_args[t], module_path[t], class_name[t], cls[t],
      instance[t], ctor_calls[t], object_id[t], outcome[t], held[t]>>

\* C21: under every interleaving of the steps of two callers on manifests that
\* do not change, each load_backend call ends as it does alone on the same
\* manifest (the same instance type and init_args, or the same error); the
\* object a call constructs is none that the other call constructed or that a
\* caller holds; and a step of one caller changes no parameter, local or result
\* of the other
C21_ConcurrentCallsIndependent ==
    /\ [](\A t \in Threads : Done(t) => outcome[t] = AloneOutcome(t))
    /\ [](\A t \in Threads : \A u \in Threads \ {t} :
            object_id[t] # "" =>
                (object_id[t] # object_id[u] /\ object_id[t] # held[u]))
    /\ [][\A u \in Threads : pc'[u] = pc[u] => Frame(u)' = Frame(u)]_vars

\* both callers are at the end of calls that overlapped: one was returned a
\* storage backend and the other a cache backend, two objects
C21_Witness ==
    /\ Done("c1") /\ Done("c2")
    /\ outcome["c1"].status = "returned" /\ outcome["c2"].status = "returned"
    /\ outcome["c1"].value.type = "pkgX.LocalDisk"
    /\ outcome["c2"].value.type = "pkgX.RedisCache"
    /\ object_id["c1"] # object_id["c2"]

Pipeline5 == <<"load_yaml", "extract", "load_class", "construct", "validate">>

\* C23: the stages a load_backend call has run are the first ones of manifest
\* load, section extraction, type resolution, construction, conformance check,
\* in that order and each once; a call that raised ran the failing stage last,
\* a call that returned ran all five; and the step at which a stage fails is
\* the step that ends the call with that error
C23_StagesInOrderOnce ==
    /\ [](\A t \in Threads :
            /\ Len(stages[t]) <= Len(Pipeline5)
            /\ stages[t] = SubSeq(Pipeline5, 1, Len(stages[t]))
            /\ (Done(t) /\ outcome[t].status = "raised" /\ entry[t] \notin Wrappers) =>
                  /\ stages[t] # <<>>
                  /\ stages[t][Len(stages[t])] = outcome[t].stage
            /\ outcome[t].status = "raised" => Done(t)
            /\ outcome[t].status = "returned" => (Done(t) /\ stages[t] = Pipeline5))
    /\ [][\A t \in Threads :
            (outcome[t].status = "none" /\ outcome'[t].status = "raised") =>
                /\ pc'[t] = "done"
                /\ \/ stages'[t] = stages[t] /\ pc[t] \in {"open", "wrapper_import"}
                   \/ /\ Len(stages'[t]) = Len(stages[t]) + 1
                      /\ outcome'[t].stage = stages'[t][Len(stages'[t])]]_vars

\* a call whose constructor raised has run four stages and not the fifth
C23_Witness ==
    \E t \in Threads :
        /\ Done(t) /\ outcome[t].status = "raised" /\ outcome[t].stage = "construct"
        /\ stages[t] = <<"load_yaml", "extract", "load_class", "construct">>
        /\ interface[t] # None

----------------------------------------------------------------------------
(* C24 *)

\* the step in which the call of t gets its class from _load_class
ClassResolved(t) == cls[t] = "" /\ cls'[t] # ""

\* C24 as it stands: the namespace is loaded anew at every call, so that the
\* class a _load_class call returns is always the class as the module defines
\* it when the call is made, also after the definition was replaced between
\* two calls for the same identifier.
C24_SecondCallSeesNewDefinition ==
    [][\A t \in Threads :
          ClassResolved(t) =>
              cls_def'[t] = namespace_defs[Join(module_path'[t])]]_vars

\* C24: the namespace is loaded at the first call that names it and is kept
\* by the host environment for the life of the process: a module once loaded
\* keeps the definition it was loaded from, whatever is installed later, and
\* every _load_class call returns the class of that loaded definition.
C24_NamespaceLoadedOnceAndKept ==
    /\ [][\A m \in DOMAIN loaded_defs :
             loaded_defs[m] # NoDef => loaded_defs'[m] = loaded_defs[m]]_vars
    /\ [][\A t \in Threads :
             ClassResolved(t) =>
                 /\ cls_def'[t] = loaded_defs'[Join(module_path'[t])]
                 /\ cls_def'[t] # NoDef
                 /\ (loaded_defs[Join(module_path'[t])] = NoDef =>
                        cls_def'[t] = namespace_defs[Join(module_path'[t])])]_vars

\* a call that follows a successful one has got its class from the original
\* definition of a module whose installed definition has been replaced
C24_Witness ==
    \E t \in Threads :
        /\ pc[t] = "construct" /\ held[t] # ""
        /\ cls[t] = "pkgX.LocalDisk"
        /\ cls_def[t] = OriginalDef
        /\ namespace_defs["pkgX"] = ReplacedDef

----------------------------------------------------------------------------
(* C25 *)

\* a step of a call, from its entry to the caller's taking the outcome
CallStep == \E t \in Threads : pc'[t] # pc[t]

\* no call is running for t: the core has neither a manifest nor an instance
NothingRetained(t) ==
    pc[t] = "idle" => (config[t] = FileAbsent /\ instance[t] = NoInstance)

\* C25 as it stands: a resolution call, successful or failed, leaves all
\* process-wide state unchanged (the files, the module cache of the host
\* environment), and after it the core holds neither the instance nor the
\* parsed manifest.
C25_NoProcessWideEffect ==
    /\ [](\A t \in Threads : NothingRetained(t))
    /\ [][CallStep => UNCHANGED <<files, sys_modules, loaded_defs>>]_vars

\* C25: a resolution call, successful or failed, leaves the core's own state
\* unchanged: it writes no file, and after it the core holds neither the
\* instance nor the parsed manifest. Its one process-wide effect is on the
\* module cache of the host environment, which gains the modules the call
\* imports (in the wrapper's import or in _load_class) and loses none.
C25_OnlyModuleCacheGrows ==
    /\ [](\A t \in Threads : NothingRetained(t))
    /\ [][CallStep => UNCHANGED <<files, namespace_defs>>]_vars
    /\ [][/\ sys_modules \subseteq sys_modules'
          /\ sys_modules' # sys_modules =>
                \E t \in Threads :
                    /\ pc[t] \in {"wrapper_import", "load_class"}
                    /\ pc'[t] # pc[t]
          /\ \A m \in DOMAIN loaded_defs :
                loaded_defs'[m] # loaded_defs[m] =>
                    (loaded_defs[m] = NoDef /\ m \in sys_modules' \ sys_modules)]_vars

\* a call has returned an instance to its caller, having imported the modules
\* of the backend, and is over
C25_Witness ==
    \E t \in Threads :
        /\ pc[t] = "idle" /\ prev[t].valid /\ held[t] # ""
        /\ "pkgX" \in sys_modules
        /\ loaded_defs["pkgX"] = OriginalDef

----------------------------------------------------------------------------
(* C26 *)

\* typ defines every operation of iface without being derived from it
StructurallySatisfies(typ, iface) ==
    iface \in TypeTable[typ].defines /\ ~MemberOf(typ, iface)

\* the first check of the caller's instance against its contract has passed
CheckPassed(t) == verdicts[t][1].status = "none"

\* C26 as it stands: with a contract supplied, the check passes for every
\* instance that is a declared member of the contract and for every instance
\* that structurally satisfies it, and fails only for instances that do
\* neither.
C26_StructuralSatisfactionPasses ==
    \A t \in Sequential :
        (pc[t] # "idle" /\ interface[t] # None) =>
            (CheckPassed(t) <=>
                \/ MemberOf(instance[t].type, interface[t])
                \/ StructurallySatisfies(instance[t].type, interface[t]))

\* C26: with a contract supplied, the check passes exactly for the instances
\* whose type is a declared member of the contract (derived from it), and
\* fails for every other instance with ContractViolation, also for one whose
\* type defines every operation the contract requires.
C26_DeclaredMembersOnly ==
    \A t \in Sequential :
        (pc[t] # "idle" /\ interface[t] # None) =>
            /\ CheckPassed(t) <=> MemberOf(instance[t].type, interface[t])
            /\ ~CheckPassed(t) =>
                  /\ verdicts[t][1].exc = "TypeError"
                  /\ verdicts[t][1].stage = "validate"

\* an instance that structurally satisfies the contract supplied has been
\* checked against it, and rejected
C26_Witness ==
    \E t \in Sequential :
        /\ pc[t] = "checked"
        /\ interface[t] = CacheInterface
        /\ StructurallySatisfies(instance[t].type, interface[t])
        /\ ~CheckPassed(t)

----------------------------------------------------------------------------
(* C27 *)

\* the call of t has ended with ContractViolation
ContractViolated(t) ==
    Done(t) /\ outcome[t].status = "raised" /\ outcome[t].stage = "validate"

\* C27: conformance is checked only after construction. Whenever load_backend
\* ends with ContractViolation, the constructor of the resolved type has been
\* called exactly once, with the init_args of the requested section, and has
\* made its object; the check was the last stage to run, so that nothing
\* disposes of the instance, and when the call is over neither the core nor the
\* caller holds it.
C27_CheckedAfterConstruction ==
    /\ [](\A t \in Threads :
            /\ verdicts[t] # <<>> => (ctor_calls[t] = 1 /\ instance[t] # NoInstance)
            /\ ContractViolated(t) =>
                  /\ ctor_calls[t] = 1
                  /\ object_id[t] # ""
                  /\ instance[t].type = cls[t]
                  /\ init_args[t] = InitArgsOf(Requested(t))
                  /\ instance[t].kwargs = init_args[t].kw
                  /\ stages[t] = Pipeline5
                  /\ outcome[t].value = NoInstance)
    /\ [][\A t \in Threads :
            /\ ctor_calls'[t] > ctor_calls[t] =>
                  (pc[t] = "construct" /\ ctor_calls'[t] = ctor_calls[t] + 1)
            /\ (ContractViolated(t) /\ pc'[t] # pc[t]) =>
                  /\ pc'[t] = "idle"
                  /\ held'[t] = held[t]
                  /\ instance'[t] = NoInstance
                  /\ object_id[t] \notin {held'[u] : u \in Threads}]_vars

\* a call has ended with ContractViolation on an instance constructed with the
\* section's init_args
C27_Witness ==
    \E t \in Threads :
        /\ ContractViolated(t)
        /\ cls[t] = "pkgX.NotAStorage"
        /\ init_args[t] = ArgsMap(RootArg)
        /\ instance[t].kwargs = RootArg
        /\ ctor_calls[t] = 1

----------------------------------------------------------------------------
(* C28, C29 *)

\* the contracts that are abstract base classes
AbstractContracts == {StorageInterface, MessagingInterface, CacheInterface}

\* typ has an implementation of every abstract operation of iface
ImplementsAll(typ, iface) ==
    /\ iface \in TypeTable[typ].defines
    /\ ~TypeTable[typ].abstract

Unqualified(t) ==
    /\ class_path[t].isstr
    /\ \A i \in 1..Len(class_path[t].toks) : class_path[t].toks[i] # SEP

\* the call of t has taken the backend field of its section
HasDescriptor(t) ==
    \/ pc[t] \in {"load_class", "construct", "validate"}
    \/ Done(t) /\ outcome[t].stage \in {"load_class", "construct", "validate", "return"}

\* C29: a backend identifier that is the empty string or has no separator
\* never yields an instance: the call ends with ValueError in _load_class at
\* the split of the identifier, with no module imported and no constructor
\* called.
C29_UnqualifiedFailsAtSplit ==
    /\ [](\A t \in Threads :
            (HasDescriptor(t) /\ Unqualified(t)) =>
                /\ pc[t] \in {"load_class", "done"}
                /\ ctor_calls[t] = 0 /\ instance[t] = NoInstance /\ cls[t] = ""
                /\ Done(t) =>
                      /\ outcome[t].status = "raised"
                      /\ outcome[t].stage = "load_class"
                      /\ outcome[t].exc = "ValueError"
                      /\ outcome[t].msg = "not enough values to unpack"
                      /\ module_path[t] = <<>>)
    /\ [][\A t \in Threads :
            (pc[t] = "load_class" /\ pc'[t] # pc[t] /\ Unqualified(t)) =>
                /\ sys_modules' = sys_modules
                /\ loaded_defs' = loaded_defs]_vars

\* a call whose section has the empty string for its backend has ended at the
\* split
C29_Witness ==
    \E t \in Threads :
        /\ Done(t) /\ class_path[t] = BackendStr(IdEmpty)
        /\ Requested(t).has_backend
        /\ outcome[t].exc = "ValueError" /\ outcome[t].stage = "load_class"
        /\ sys_modules = {}

\* a call whose section has an identifier without a separator has ended at the
\* split
C29_WitnessNoSeparator ==
    \E t \in Threads :
        /\ Done(t) /\ class_path[t] = BackendStr(IdNoSeparator)
        /\ outcome[t].exc = "ValueError" /\ outcome[t].stage = "load_class"

----------------------------------------------------------------------------
(* C30 *)

\* C30: each load_backend call reads its manifest once, when it opens the
\* file: what it has parsed stays as read until the call is over, whatever is
\* written to the file meanwhile, and the backend identifier, the init_args,
\* the class resolved and the arguments of the instance all come from the
\* requested section of that one version.
C30_OneManifestVersion ==
    /\ [][\A t \in Threads :
            /\ (pc[t] = "open" /\ pc'[t] = "extract") =>
                  config'[t] = files[EffectivePath(t)]
            /\ (pc[t] \in {"extract", "load_class", "construct", "validate"}) =>
                  config'[t] = config[t]
            /\ (pc[t] = "done" /\ pc'[t] = "done") => config'[t] = config[t]]_vars
    /\ [](\A t \in Threads :
            /\ HasDescriptor(t) =>
                  /\ class_path[t] = Requested(t).backend
                  /\ init_args[t] = InitArgsOf(Requested(t))
            /\ cls[t] # "" => cls[t] = Join(Requested(t).backend.toks)
            /\ instance[t] # NoInstance =>
                  /\ instance[t].type = Join(Requested(t).backend.toks)
                  /\ instance[t].kwargs = InitArgsOf(Requested(t)).kw)

\* a call has returned an instance of the backend and with the init_args of the
\* version it read, while the file has since got a version with another
\* backend and other init_args in the requested section
C30_Witness ==
    \E t \in Threads :
        LET now == files[EffectivePath(t)]
        IN  /\ Done(t) /\ outcome[t].status = "returned"
            /\ now.kind = "map"
            /\ now.sections[section[t]].kind = "map"
            /\ now.sections[section[t]].backend # Requested(t).backend
            /\ now.sections[section[t]].has_backend
            /\ now.sections[section[t]].init_args # Requested(t).init_args
            /\ outcome[t].value.type = Join(Requested(t).backend.toks)
            /\ outcome[t].value.kwargs = Requested(t).init_args.kw
            /\ outcome[t].value.kwargs # {}

====
